---------------------------- MODULE Spec2Model ----------------------------
(***************************************************************************)
(* Model of PointCloudXYZNodelet (src/src/nodelets/point_cloud_xyz.cpp):   *)
(* onInit, connectCb and depthCb, together with the projection engine      *)
(* (DepthImageToPCL) that depthCb drives.  The engine's implementation is  *)
(* not part of src/; its behaviour is taken from spec.md section 4.2 / 7   *)
(* and kept in the definitions marked "engine" below.                      *)
(*                                                                         *)
(* depthCb is modelled in the four segments its control flow has           *)
(* (decode, backend check, one-time setup, conversion), driven by dpc, so  *)
(* that connectCb, which runs under connect_mutex_ only, can interleave.   *)
(* log is the trace of what the callback in flight has done so far; it is  *)
(* reset when the next frame is delivered.                                 *)
(***************************************************************************)
EXTENDS Integers, Sequences, FiniteSets

\* ------------------------------------------------------------------ bounds
MaxSubs == 2
NumConnThreads == 2
MaxWidth == 2
MaxHeight == 1

ConnThreads == 1..NumConnThreads

\* ------------------------------------------------------------------ inputs
\* Two camera calibrations (cx, cy, fx, fy); the first is spec.md's scenario.
Calibs ==
    { [cx |-> 1, cy |-> 0, fx |-> 500, fy |-> 500],
      [cx |-> 2, cy |-> 1, fx |-> 400, fy |-> 400] }

NoCalib == [cx |-> 0, cy |-> 0, fx |-> 0, fy |-> 0]

\* "16UC1" is a depth encoding cv_bridge knows; "bogus" is one it rejects.
Encodings == {"16UC1", "bogus"}

\* header.stamp of a depth message, in nanoseconds.
Stamps == {1999, 2000}

\* Raw depth samples (millimetres); 0 is the sensor's "no measurement".
Samples == {0, 1000, 2000}

\* Depth messages of the given sizes whose data holds width * height samples.
FramesWith(widths, heights, samples, stamps) ==
    UNION { [width : {w}, height : {h}, encoding : Encodings, info : Calibs,
             stamp : stamps, data : [1..(w * h) -> samples]] :
            w \in widths, h \in heights }

\* The frames the subscription delivers: every size up to the bounds, each
\* sample a valid reading, one stamp.
Frames == FramesWith(1..MaxWidth, 1..MaxHeight, {2000}, {1999})

\* Frames for the per-frame and per-pixel claims: every sample value in every
\* position of the sizes 1 x 1, 2 x 1 and 1 x 2, each with every stamp, and a
\* 65536 x 65536 message.  The samples of the latter are not enumerated: its pixel count never equals a cl_uint n_pixels, so
\* convert_to_pcl rejects it before reading a sample.
RichFrames ==
    FramesWith({1, 2}, {1}, Samples, Stamps)
    \cup FramesWith({1}, {2}, Samples, Stamps)
    \cup [width : {65536}, height : {65536}, encoding : Encodings, info : Calibs,
          stamp : Stamps, data : {<<>>}]

NoFrame ==
    [width |-> 0, height |-> 0, encoding |-> "none", info |-> NoCalib,
     stamp |-> 0, data |-> <<>>]

SetupFaults == {"none", "init_CL", "program_kernel", "init_buffers"}
ConvertFaults == {"none", "transient", "backend_lost"}

\* ------------------------------------------------------------ pure helpers
\* Exact product of two unsigned values a, b <= 65536, as 16-bit halves
\* (hi may exceed 16 bits): TLC's integers stop below 2^31.
WideMul(a, b) ==
    LET p1 == (a \div 256) * b
        p0 == (a % 256) * b
        mid == (p1 % 256) * 256 + p0
    IN [hi |-> (p1 \div 256) + (mid \div 65536), lo |-> mid % 65536]

\* Product of two cl_uint values as a cl_uint: the exact product modulo 2^32.
MulU32(a, b) == [hi |-> WideMul(a, b).hi % 65536, lo |-> WideMul(a, b).lo]

Has(s, e) == \E i \in DOMAIN s : s[i] = e

\* cv_bridge::toCvCopy(*depth_msg, depth_msg->encoding) throws on an encoding
\* it does not know.
Decodable(f) == f.encoding = "16UC1"

\* MetaData md with a range clamp of 1.5 m instead of none.
FrameMetaData_clamped(f) ==
    [width |-> f.width, height |-> f.height,
     n_pixels |-> MulU32(f.width, f.height),
     depth_scaling_milli |-> 1, invalid_depth |-> 0, max_depth |-> 1500]

\* MetaData md as depthCb fills it in; depth_scaling and max_depth are kept in
\* 1/1000 units.
FrameMetaData(f) ==
    [width |-> f.width, height |-> f.height,
     n_pixels |-> MulU32(f.width, f.height),
     depth_scaling_milli |-> 1, invalid_depth |-> 0, max_depth |-> 0]

NoMetaData ==
    [width |-> 0, height |-> 0, n_pixels |-> [hi |-> 0, lo |-> 0],
     depth_scaling_milli |-> 0, invalid_depth |-> 0, max_depth |-> 0]

\* Transform tf read back from camera_model_ after fromCameraInfo.
CameraTransform(cm) == [cx |-> cm.cx, cy |-> cm.cy, fx |-> cm.fx, fy |-> cm.fy]

\* Number of depth samples a frame carries (exact, as 16-bit halves).
FrameLength(f) == WideMul(f.width, f.height)

\* ------------------------------------------------------------------ engine
SetupSteps == <<"init_CL", "program_kernel", "init_buffers">>

StepIndex(step) == CHOOSE i \in DOMAIN SetupSteps : SetupSteps[i] = step

\* The setup's engine calls with the remaining ones made after a throw.
SetupCalls_continues(fault) ==
    IF fault = "none" THEN SetupSteps
    ELSE SubSeq(SetupSteps, 1, StepIndex(fault)) \o <<"throws">>
         \o SubSeq(SetupSteps, StepIndex(fault) + 1, Len(SetupSteps))

\* The engine calls the try block of the setup makes, in order, up to and
\* including the one that throws ("throws" marks the exception leaving it).
SetupCalls(fault) ==
    IF fault = "none" THEN SetupSteps
    ELSE SubSeq(SetupSteps, 1, StepIndex(fault)) \o <<"throws">>

\* Engine state after init_CL / program_kernel / init_buffers.
EngineAfterSetup(fault) == IF fault = "none" THEN "Prepared" ELSE "Failed"

\* convert_to_pcl without the pixel-count precondition check.
ConvertToPcl_noSizeCheck(state, md, f, fault) ==
    IF state # "Prepared" THEN "SetupOrderError"
    ELSE IF fault = "none" THEN "ok"
    ELSE "ProjectionError"

\* Outcome of convert_to_pcl: "ok" or the error it raises.
ConvertToPcl(state, md, f, fault) ==
    IF state # "Prepared" THEN "SetupOrderError"
    ELSE IF FrameLength(f) # md.n_pixels THEN "InputSizeMismatch"
    ELSE IF fault = "none" THEN "ok"
    ELSE "ProjectionError"

\* Engine state after convert_to_pcl: only a lost backend invalidates it.
EngineAfterConvert(state, md, f, fault) ==
    IF ConvertToPcl(state, md, f, fault) = "ProjectionError" /\ fault = "backend_lost"
    THEN "Failed" ELSE state

\* The invalid marker: every component is MetaData::NaN.
InvalidPoint ==
    [valid |-> FALSE, z |-> 0, xnum |-> 0, xden |-> 0, ynum |-> 0, yden |-> 0]

\* The projection kernel for pixel i (row-major, from 1) with raw sample d.
\* z is in 1/1000 m; x = xnum / xden and y = ynum / yden, in 1/1000 m, are
\* kept as exact fractions.
ProjectPixel(md, tf, i, d) ==
    LET c == IF md.width = 0 THEN 0 ELSE (i - 1) % md.width
        r == IF md.width = 0 THEN 0 ELSE (i - 1) \div md.width
        z == d * md.depth_scaling_milli
    IN IF d = md.invalid_depth \/ (md.max_depth > 0 /\ z > md.max_depth)
       THEN InvalidPoint
       ELSE [valid |-> TRUE, z |-> z,
             xnum |-> (c - tf.cx) * z, xden |-> tf.fx,
             ynum |-> (r - tf.cy) * z, yden |-> tf.fy]

\* The points convert_to_pcl returns: one per sample, in the samples' order.
ProjectFrame(md, tf, data) ==
    [i \in DOMAIN data |-> ProjectPixel(md, tf, i, data[i])]

\* ------------------------------------------------------------ nodelet code
\* Line 85: the OpenCL branch is taken exactly when cv::ocl::haveOpenCL().
UsesOpenCL_always(cl) == TRUE

UsesOpenCL(cl) == cl

\* Line 88: the setup block is entered exactly when kernel_ready_ is false.
NeedsSetup_always(ready) == TRUE

NeedsSetup(ready) == ~ready

\* Lines 127-133: publish is reached only when convert_to_pcl returned.
Publishes_always(res) == TRUE

Publishes(res) == res = "ok"

\* Lines 135-139: the conversion's catch block only logs; kernel_ready_ keeps
\* its value whatever convert_to_pcl did.
ReadyAfterConvert_reset(ready, res) == ready /\ res = "ok"

ReadyAfterConvert(ready, res) == ready

\* Lines 90-121 in order: what the setup block does for a given fault.
SetupTrace(fault) ==
    <<"kernel_ready", "fromCameraInfo", "setMetaData", "setTFData", "initCloud">>
    \o SetupCalls(fault)
    \o (IF fault = "none" THEN <<>> ELSE <<"err_setup", "shutdown">>)

\* Lines 124-139: what the conversion block does for a given outcome.
ConvertTrace(res) ==
    <<"convert">>
    \o (IF Publishes(res) THEN <<"publish">> ELSE <<>>)
    \o (IF res = "ok" THEN <<>> ELSE <<res, "err_convert">>)

\* Line 38: tf_frame_, the "tf_frame" parameter (its default).
TfFrame == "kinect2_link"

\* Line 132: depth_msg->header.stamp.toNSec() / 1000ull, with the stamp kept
\* in nanoseconds instead of divided.
StampMicros_nanos(ns) == ns

\* Line 132: depth_msg->header.stamp.toNSec() / 1000ull.
StampMicros(ns) == ns \div 1000

NoCloud ==
    [width |-> 0, height |-> 0, is_dense |-> TRUE, frame_id |-> "",
     stamp |-> 0, points |-> <<>>]

\* ------------------------------------------------------------------- state
VARIABLES
    init_pc,         \* position of onInit
    kernel_ready_,   \* PointCloudXYZNodelet::kernel_ready_
    sub_depth_,      \* TRUE while sub_depth_ is a live subscription
    pub_cloud_,      \* TRUE once onInit has assigned pub_cloud_
    connect_mutex_,  \* "free", "onInit" or "connectCb"
    camera_model_,   \* calibration held by camera_model_
    eng_state,       \* engine: "Uninitialized", "Prepared" or "Failed"
    eng_md,          \* engine: MetaData stored by setMetaData
    eng_tf,          \* engine: Transform stored by setTFData
    ros_ok,          \* FALSE once ros::shutdown() was called
    advertised,      \* TRUE once cloud_out is advertised (connectCb may fire)
    numSubscribers,  \* subscribers of cloud_out
    cpc,             \* position of each connectCb thread, or its decision
    dpc,             \* position of depthCb
    cur,             \* the frame depthCb is handling (or handled last)
    log,             \* what depthCb did for cur, in order
    cloud,           \* the cloud published for cur, or NoCloud
    pre,             \* nodelet/engine state when cur was delivered
    setupRuns,       \* how often the setup block was entered
    setupOk,         \* TRUE once a setup completed without throwing
    reactivated      \* TRUE once connectCb re-subscribed after a setup

vars ==
    <<init_pc, kernel_ready_, sub_depth_, pub_cloud_, connect_mutex_,
      camera_model_, eng_state, eng_md, eng_tf, ros_ok, advertised,
      numSubscribers, cpc, dpc, cur, log, cloud, pre, setupRuns, setupOk,
      reactivated>>

nodeletVars == <<kernel_ready_, camera_model_, ros_ok>>
engineVars == <<eng_state, eng_md, eng_tf>>
connectVars ==
    <<sub_depth_, pub_cloud_, connect_mutex_, advertised, numSubscribers, cpc,
      reactivated>>
frameVars == <<dpc, cur, log, cloud, pre>>
historyVars == <<setupRuns, setupOk>>

Snapshot(afterFailure) ==
    [kernel_ready |-> kernel_ready_, eng_state |-> eng_state, eng_md |-> eng_md,
     eng_tf |-> eng_tf, afterConvFailure |-> afterFailure]

\* Lines 127-133: the cloud handed to pub_cloud_.publish for frame f.
CloudOf(f) ==
    [width |-> f.width, height |-> f.height, is_dense |-> FALSE,
     frame_id |-> TfFrame, stamp |-> StampMicros(f.stamp),
     points |-> ProjectFrame(eng_md, eng_tf, f.data)]

\* State after construction, before onInit: kernel_ready_ is a plain bool
\* member that nothing has written yet.
Init ==
    /\ init_pc = "start"
    /\ kernel_ready_ \in BOOLEAN
    /\ sub_depth_ = FALSE
    /\ pub_cloud_ = FALSE
    /\ connect_mutex_ = "free"
    /\ camera_model_ = NoCalib
    /\ eng_state = "Uninitialized"
    /\ eng_md = NoMetaData
    /\ eng_tf = CameraTransform(NoCalib)
    /\ ros_ok = TRUE
    /\ advertised = FALSE
    /\ numSubscribers = 0
    /\ cpc = [t \in ConnThreads |-> "idle"]
    /\ dpc = "idle"
    /\ cur = NoFrame
    /\ log = <<>>
    /\ cloud = NoCloud
    /\ pre = Snapshot(FALSE)
    /\ setupRuns = 0
    /\ setupOk = FALSE
    /\ reactivated = FALSE

\* ------------------------------------------------------------------ onInit
\* Lines 24-41: fresh cloud, fresh engine, kernel_ready_ = false, parameters.
OnInitFields ==
    /\ init_pc = "start"
    /\ init_pc' = "lock"
    /\ kernel_ready_' = FALSE
    /\ eng_state' = "Uninitialized"
    /\ UNCHANGED <<camera_model_, ros_ok, eng_md, eng_tf, connectVars, frameVars,
                   historyVars>>

\* Line 47: lock_guard on connect_mutex_.
OnInitLock ==
    /\ init_pc = "lock"
    /\ connect_mutex_ = "free"
    /\ connect_mutex_' = "onInit"
    /\ init_pc' = "advertise"
    /\ UNCHANGED <<nodeletVars, engineVars, sub_depth_, pub_cloud_, advertised,
                   numSubscribers, cpc, reactivated, frameVars, historyVars>>

\* Line 48, right-hand side: nh.advertise registers connect_cb.
OnInitAdvertise ==
    /\ init_pc = "advertise"
    /\ advertised' = TRUE
    /\ init_pc' = "assign"
    /\ UNCHANGED <<nodeletVars, engineVars, sub_depth_, pub_cloud_, connect_mutex_,
                   numSubscribers, cpc, reactivated, frameVars, historyVars>>

\* Line 48, assignment to pub_cloud_, and line 49: the lock_guard is released.
OnInitAssign ==
    /\ init_pc = "assign"
    /\ pub_cloud_' = TRUE
    /\ connect_mutex_' = "free"
    /\ init_pc' = "done"
    /\ UNCHANGED <<nodeletVars, engineVars, sub_depth_, advertised, numSubscribers,
                   cpc, reactivated, frameVars, historyVars>>

\* --------------------------------------------------------------- connectCb
\* A subscriber of cloud_out connects (d = 1) or disconnects (d = 0); ROS
\* calls connect_cb on thread t.
SubscriberChange(t, d) ==
    /\ advertised
    /\ ros_ok
    /\ cpc[t] = "idle"
    /\ IF d = 1 THEN numSubscribers < MaxSubs ELSE numSubscribers > 0
    /\ numSubscribers' = IF d = 1 THEN numSubscribers + 1 ELSE numSubscribers - 1
    /\ cpc' = [cpc EXCEPT ![t] = "called"]
    /\ UNCHANGED <<init_pc, nodeletVars, engineVars, sub_depth_, pub_cloud_,
                   connect_mutex_, advertised, reactivated, frameVars, historyVars>>

\* connectCb entering its body without waiting for connect_mutex_.
ConnectCbLock_noMutex(t) ==
    /\ cpc[t] = "called"
    /\ connect_mutex_' = "connectCb"
    /\ cpc' = [cpc EXCEPT ![t] = "locked"]
    /\ UNCHANGED <<init_pc, nodeletVars, engineVars, sub_depth_, pub_cloud_,
                   advertised, numSubscribers, reactivated, frameVars, historyVars>>

\* Line 53: lock_guard on connect_mutex_.
ConnectCbLock(t) ==
    /\ cpc[t] = "called"
    /\ connect_mutex_ = "free"
    /\ connect_mutex_' = "connectCb"
    /\ cpc' = [cpc EXCEPT ![t] = "locked"]
    /\ UNCHANGED <<init_pc, nodeletVars, engineVars, sub_depth_, pub_cloud_,
                   advertised, numSubscribers, reactivated, frameVars, historyVars>>

\* pub_cloud_.getNumSubscribers(): an unassigned Publisher reports 0.
GetNumSubscribers == IF pub_cloud_ THEN numSubscribers ELSE 0

\* What connectCb can decide to do with sub_depth_.
ConnectDecisions == {"shutdown", "subscribe", "keep"}

\* The decision with the zero-subscriber branch missing.
ConnectDecision_noShutdown(n, live) ==
    IF n > 0 /\ ~live THEN "subscribe" ELSE "keep"

\* The decision with the !sub_depth_ test missing.
ConnectDecision_resubscribe(n, live) ==
    IF n = 0 THEN "shutdown" ELSE "subscribe"

\* Lines 54 and 59: n is getNumSubscribers(), live is sub_depth_'s validity.
ConnectDecision(n, live) ==
    IF n = 0 THEN "shutdown"
    ELSE IF ~live THEN "subscribe"
    ELSE "keep"

\* Lines 54 and 59: the two tests, made while holding the lock.
ConnectCbCheck(t) ==
    /\ cpc[t] = "locked"
    /\ cpc' = [cpc EXCEPT ![t] = ConnectDecision(GetNumSubscribers, sub_depth_)]
    /\ UNCHANGED <<init_pc, nodeletVars, engineVars, sub_depth_, pub_cloud_,
                   connect_mutex_, advertised, numSubscribers, reactivated,
                   frameVars, historyVars>>

\* connectCb clearing kernel_ready_ when it shuts the subscription down.
ConnectCbBody_resetsReady(t) ==
    /\ cpc[t] \in ConnectDecisions
    /\ sub_depth_' = CASE cpc[t] = "shutdown" -> FALSE
                       [] cpc[t] = "subscribe" -> TRUE
                       [] OTHER -> sub_depth_
    /\ kernel_ready_' = (kernel_ready_ /\ cpc[t] # "shutdown")
    /\ reactivated' = (reactivated \/ (cpc[t] = "subscribe" /\ setupRuns > 0))
    /\ connect_mutex_' = "free"
    /\ cpc' = [cpc EXCEPT ![t] = "idle"]
    /\ UNCHANGED <<init_pc, camera_model_, ros_ok, engineVars, pub_cloud_,
                   advertised, numSubscribers, frameVars, historyVars>>

\* Lines 56-57 or 61-65, then line 67: shut the subscription down, or
\* subscribe, or leave it, and release the lock.
ConnectCbBody(t) ==
    /\ cpc[t] \in ConnectDecisions
    /\ sub_depth_' = CASE cpc[t] = "shutdown" -> FALSE
                       [] cpc[t] = "subscribe" -> TRUE
                       [] OTHER -> sub_depth_
    /\ reactivated' = (reactivated \/ (cpc[t] = "subscribe" /\ setupRuns > 0))
    /\ connect_mutex_' = "free"
    /\ cpc' = [cpc EXCEPT ![t] = "idle"]
    /\ UNCHANGED <<init_pc, nodeletVars, engineVars, pub_cloud_, advertised,
                   numSubscribers, frameVars, historyVars>>

\* ----------------------------------------------------------------- depthCb
ConvFailedAfterSetup ==
    dpc = "done" /\ Has(log, "err_convert") /\ ~Has(log, "err_setup") /\ setupOk

\* Lines 69-82: the subscription delivers frame f; toCvCopy, its exception
\* caught and logged.
DepthCbDecode(f) ==
    /\ dpc \in {"idle", "done"}
    /\ sub_depth_
    /\ ros_ok
    /\ cur' = f
    /\ log' = IF Decodable(f) THEN <<>> ELSE <<"err_decode">>
    /\ cloud' = NoCloud
    /\ pre' = Snapshot(ConvFailedAfterSetup)
    /\ dpc' = "check"
    /\ UNCHANGED <<init_pc, nodeletVars, engineVars, connectVars, historyVars>>

\* What cv::ocl::haveOpenCL() returned, as the log keeps it.
HaveOpenCLResult(cl) == IF cl THEN "opencl" ELSE "no_opencl"

\* Lines 85-88 and 142-146: cl is what cv::ocl::haveOpenCL() returns.
DepthCbCheckCL(cl) ==
    /\ dpc = "check"
    /\ IF UsesOpenCL(cl)
       THEN /\ dpc' = IF NeedsSetup(kernel_ready_) THEN "setup" ELSE "convert"
            /\ log' = Append(log, HaveOpenCLResult(cl))
       ELSE /\ dpc' = "done"
            /\ log' = log \o <<HaveOpenCLResult(cl), "err_nocl">>
    /\ UNCHANGED <<init_pc, nodeletVars, engineVars, connectVars, cur, cloud, pre,
                   historyVars>>

\* Lines 90-122: the one-time setup; fault names the engine call that throws.
DepthCbSetup(fault) ==
    /\ dpc = "setup"
    /\ kernel_ready_' = TRUE
    /\ camera_model_' = cur.info
    /\ eng_md' = FrameMetaData(cur)
    /\ eng_tf' = CameraTransform(camera_model_')
    /\ eng_state' = EngineAfterSetup(fault)
    /\ ros_ok' = (ros_ok /\ fault = "none")
    /\ log' = log \o SetupTrace(fault)
    /\ setupRuns' = setupRuns + 1
    /\ setupOk' = (setupOk \/ fault = "none")
    /\ dpc' = "convert"
    /\ UNCHANGED <<init_pc, connectVars, cur, cloud, pre>>

\* Lines 124-139: convert_to_pcl, then fill in and publish the cloud, or log
\* the exception.
DepthCbConvert(fault) ==
    LET res == ConvertToPcl(eng_state, eng_md, cur, fault) IN
    /\ dpc = "convert"
    /\ eng_state' = EngineAfterConvert(eng_state, eng_md, cur, fault)
    /\ kernel_ready_' = ReadyAfterConvert(kernel_ready_, res)
    /\ log' = log \o ConvertTrace(res)
    /\ cloud' = IF Publishes(res) THEN CloudOf(cur) ELSE cloud
    /\ dpc' = "done"
    /\ UNCHANGED <<init_pc, camera_model_, ros_ok, eng_md, eng_tf, connectVars,
                   cur, pre, historyVars>>

\* ----------------------------------------------------------- specification
Next ==
    \/ OnInitFields
    \/ OnInitLock
    \/ OnInitAdvertise
    \/ OnInitAssign
    \/ \E t \in ConnThreads, d \in {0, 1} : SubscriberChange(t, d)
    \/ \E t \in ConnThreads : ConnectCbLock(t)
    \/ \E t \in ConnThreads : ConnectCbCheck(t)
    \/ \E t \in ConnThreads : ConnectCbBody(t)
    \/ \E f \in Frames : DepthCbDecode(f)
    \/ \E cl \in BOOLEAN : DepthCbCheckCL(cl)
    \/ \E fault \in SetupFaults : DepthCbSetup(fault)
    \/ \E fault \in ConvertFaults : DepthCbConvert(fault)

Spec == Init /\ [][Next]_vars

\* The nodelet after onInit and the connectCb of a first subscriber: the
\* depth subscription is live and no frame has arrived yet.
InitSubscribed ==
    /\ init_pc = "done"
    /\ kernel_ready_ = FALSE
    /\ sub_depth_ = TRUE
    /\ pub_cloud_ = TRUE
    /\ connect_mutex_ = "free"
    /\ camera_model_ = NoCalib
    /\ eng_state = "Uninitialized"
    /\ eng_md = NoMetaData
    /\ eng_tf = CameraTransform(NoCalib)
    /\ ros_ok = TRUE
    /\ advertised = TRUE
    /\ numSubscribers = 1
    /\ cpc = [t \in ConnThreads |-> "idle"]
    /\ dpc = "idle"
    /\ cur = NoFrame
    /\ log = <<>>
    /\ cloud = NoCloud
    /\ pre = Snapshot(FALSE)
    /\ setupRuns = 0
    /\ setupOk = FALSE
    /\ reactivated = FALSE

\* depthCb alone, on frames that carry every sample pattern.
NextFrames ==
    \/ \E f \in RichFrames : DepthCbDecode(f)
    \/ \E cl \in BOOLEAN : DepthCbCheckCL(cl)
    \/ \E fault \in SetupFaults : DepthCbSetup(fault)
    \/ \E fault \in ConvertFaults : DepthCbConvert(fault)

SpecFrames == InitSubscribed /\ [][NextFrames]_vars

\* ------------------------------------------------------------------ claims
\* An error was logged for the frame in hand (NODELET_ERROR at lines 81, 119,
\* 137 or 145).
ErrorReported ==
    \/ Has(log, "err_decode")
    \/ Has(log, "err_setup")
    \/ Has(log, "err_convert")
    \/ Has(log, "err_nocl")

\* The setup block ran for the frame in hand / ran and did not throw.
SetupRan == Has(log, "kernel_ready")
SetupSucceeded == Has(log, "init_buffers") /\ ~Has(log, "err_setup")

\* C1: convert_to_pcl is invoked only after a setup has completed
\* successfully, and a frame handled while no setup has ever succeeded ends
\* with an error and no published cloud.
C1_ProjectOnlyAfterSetup ==
    /\ Has(log, "convert") => setupOk
    /\ (dpc = "done" /\ ~setupOk) => (ErrorReported /\ cloud = NoCloud)

\* C2: when the one-time setup throws while a frame is handled, no cloud is
\* published for that frame.
C2_NoPublishOnSetupError ==
    Has(log, "err_setup") => (cloud = NoCloud /\ ~Has(log, "publish"))

C2_Witness ==
    dpc = "done" /\ Has(log, "err_setup") /\ Has(log, "convert")

\* C3: after a failed setup attempt the ready flag does not report prepared
\* and the engine is not in the Prepared state.
C3_NotReadyAfterFailedSetup ==
    Has(log, "err_setup") => (~kernel_ready_ /\ eng_state # "Prepared")

\* C4: a frame whose calibration or dimensions differ from those the engine
\* was last prepared with is projected only after a full re-preparation with
\* the new metadata and transform.
C4_ReprepareOnChange ==
    ( /\ Has(log, "convert")
      /\ pre.eng_state = "Prepared"
      /\ \/ pre.eng_md # FrameMetaData(cur)
         \/ pre.eng_tf # CameraTransform(cur.info) )
    => ( /\ SetupSucceeded
         /\ eng_md = FrameMetaData(cur)
         /\ eng_tf = CameraTransform(cur.info) )

\* C5: the setup block runs at most once over all connects, disconnects and
\* frames, and a frame that arrives with the engine already prepared performs
\* no setup step.
C5_SetupAtMostOnce ==
    /\ setupRuns <= 1
    /\ pre.kernel_ready =>
         (~SetupRan /\ \A i \in DOMAIN SetupSteps : ~Has(log, SetupSteps[i]))

C5_Witness ==
    /\ dpc = "done"
    /\ pre.kernel_ready
    /\ reactivated
    /\ setupRuns = 1
    /\ eng_md = FrameMetaData(cur)
    /\ eng_tf = CameraTransform(cur.info)
    /\ Has(log, "publish")

\* C6: every handled frame ends in exactly one of two outcomes: a cloud was
\* published for it, or an error was reported for it.
C6_ExactlyOneOutcome ==
    dpc = "done" => ((cloud # NoCloud) # ErrorReported)

\* C7: a frame whose decoding fails never reaches the core: no setup, no
\* projection and no published cloud for it.
C7_DecodeFailureStopsFrame ==
    Has(log, "err_decode") =>
        (~SetupRan /\ ~Has(log, "convert") /\ cloud = NoCloud)

\* C8: a frame whose pixel count differs from the n_pixels fixed at setup is
\* rejected with InputSizeMismatch by the prepared engine and is never
\* published; every published frame has a length equal to n_pixels.
C8_SizeMismatchRejected ==
    /\ ( /\ Has(log, "convert")
         /\ FrameLength(cur) # eng_md.n_pixels )
       => ( /\ cloud = NoCloud
            /\ ~Has(log, "publish")
            /\ Has(log, "err_convert")
            /\ (pre.eng_state = "Prepared" \/ SetupSucceeded)
                 => Has(log, "InputSizeMismatch") )
    /\ Has(log, "publish") => FrameLength(cur) = eng_md.n_pixels

C8_Witness ==
    /\ dpc = "done"
    /\ Has(log, "InputSizeMismatch")
    /\ FrameLength(cur) # eng_md.n_pixels

\* The conversion step of a frame whose convert_to_pcl throws although a
\* setup has succeeded.
ConvertRaisesAfterSetup ==
    /\ dpc = "convert"
    /\ dpc' = "done"
    /\ setupOk
    /\ ~Has(log, "err_setup")
    /\ Has(log', "err_convert")

\* C9: a conversion that throws after a successful setup is reported for that
\* frame only: nothing is published, kernel_ready_, the stored metadata and
\* transform and the subscription are left as they were, and the next frame
\* goes to convert_to_pcl without any setup step.
C9_ConvertFailureIsLocal ==
    /\ [][ConvertRaisesAfterSetup =>
            /\ cloud' = NoCloud
            /\ ~Has(log', "publish")
            /\ kernel_ready_' = kernel_ready_
            /\ eng_md' = eng_md
            /\ eng_tf' = eng_tf
            /\ sub_depth_' = sub_depth_
            /\ setupRuns' = setupRuns]_vars
    /\ [](pre.afterConvFailure =>
            /\ ~SetupRan
            /\ (dpc = "done" /\ Has(log, "opencl")) => Has(log, "convert"))

C9_Witness ==
    dpc = "done" /\ pre.afterConvFailure /\ Has(log, "publish")

\* C10: with no OpenCL backend the frame is dropped with an error log and
\* nothing else: no setup, no conversion, no cloud, and the ready flag and the
\* engine are as they were when the frame arrived.
C10_NoBackendDropsFrame ==
    Has(log, "no_opencl") =>
        /\ dpc = "done"
        /\ Has(log, "err_nocl")
        /\ ~SetupRan
        /\ ~Has(log, "convert")
        /\ cloud = NoCloud
        /\ kernel_ready_ = pre.kernel_ready
        /\ eng_state = pre.eng_state
        /\ eng_md = pre.eng_md
        /\ eng_tf = pre.eng_tf

C10_Witness ==
    dpc = "done" /\ Has(log, "no_opencl") /\ pre.kernel_ready /\ sub_depth_

\* C11: every published cloud carries the width and height of the frame in
\* hand, is_dense = false, the configured frame id, and the frame's
\* nanosecond stamp integer-divided by 1000.
C11_CloudHeaderFromFrame ==
    Has(log, "publish") =>
        /\ cloud.width = cur.width
        /\ cloud.height = cur.height
        /\ cloud.is_dense = FALSE
        /\ cloud.frame_id = TfFrame
        /\ cloud.stamp * 1000 <= cur.stamp
        /\ cur.stamp < (cloud.stamp + 1) * 1000

\* A later frame, with another calibration than the one the setup saw, was
\* published with a stamp that the division rounds down.
C11_Witness ==
    /\ dpc = "done"
    /\ Has(log, "publish")
    /\ pre.kernel_ready
    /\ cur.info # camera_model_
    /\ cur.stamp = 1999
    /\ cloud.stamp = 1

\* C12: in a published cloud, point i is the invalid marker exactly when
\* sample i is the invalid sentinel or exceeds a positive max_depth; with the
\* metadata depthCb sets that is exactly when the raw sample is 0; the cloud
\* has one point per sample, in the samples' order.
C12_InvalidIffZeroSample ==
    Has(log, "publish") =>
        /\ Len(cloud.points) = Len(cur.data)
        /\ \A i \in DOMAIN cur.data :
              /\ (cloud.points[i] = InvalidPoint) <=>
                    \/ cur.data[i] = eng_md.invalid_depth
                    \/ /\ eng_md.max_depth > 0
                       /\ cur.data[i] * eng_md.depth_scaling_milli > eng_md.max_depth
              /\ (cloud.points[i] = InvalidPoint) <=> (cur.data[i] = 0)
              /\ cur.data[i] # 0 =>
                    /\ cloud.points[i].valid
                    /\ cloud.points[i].z = cur.data[i]

\* A 2 x 1 cloud whose first point is invalid and whose second is not,
\* spec.md's scenario [0, 2000].
C12_Witness ==
    /\ dpc = "done"
    /\ Has(log, "publish")
    /\ cur.width = 2
    /\ cur.data = <<0, 2000>>
    /\ cloud.points[1] = InvalidPoint
    /\ cloud.points[2].z = 2000

\* C13: the metadata built at setup has n_pixels = width * height, the exact
\* product, for every frame size.
C13_PixelCountExact ==
    SetupRan => eng_md.n_pixels = WideMul(cur.width, cur.height)

\* Thread t's connectCb makes its tests / carries out its decision and returns.
ConnectChecks(t) == cpc[t] = "locked" /\ cpc'[t] \in ConnectDecisions
ConnectReturns(t) == cpc[t] \in ConnectDecisions /\ cpc'[t] = "idle"

\* C14: when a connectCb returns, the depth subscription is live exactly when
\* the subscriber count that callback observed was above zero: zero shuts it
\* down, one or more with no live subscription creates it.
C14_SubscriptionFollowsCount ==
    [][\A t \in ConnThreads :
         /\ ConnectChecks(t) =>
               /\ (cpc'[t] = "shutdown") <=> (numSubscribers = 0)
               /\ (cpc'[t] = "subscribe") <=> (numSubscribers > 0 /\ ~sub_depth_)
         /\ ConnectReturns(t) => (sub_depth_' <=> (cpc[t] # "shutdown"))]_vars

\* The subscription was re-created after a setup and shut down again, with
\* no connectCb in progress.
C14_Witness ==
    /\ reactivated
    /\ ~sub_depth_
    /\ numSubscribers = 0
    /\ \A t \in ConnThreads : cpc[t] = "idle"

\* C15: a connectCb that finds subscribers and a live subscription leaves it
\* unchanged; subscribeCamera runs only while no subscription is live, so
\* there is never a second one and a new one follows a shutdown.
C15_AtMostOneSubscription ==
    [][/\ \A t \in ConnThreads :
            /\ (ConnectChecks(t) /\ numSubscribers > 0 /\ sub_depth_)
                  => cpc'[t] = "keep"
            /\ (ConnectReturns(t) /\ cpc[t] = "keep")
                  => (sub_depth_ /\ sub_depth_')
            /\ (ConnectReturns(t) /\ cpc[t] = "subscribe") => ~sub_depth_
       /\ (~sub_depth_ /\ sub_depth_') =>
            \E t \in ConnThreads : ConnectReturns(t) /\ cpc[t] = "subscribe"]_vars

\* Two subscribers are connected, both connectCb calls have returned and the
\* subscription, created before a setup ran and re-created after, is live.
C15_Witness ==
    /\ reactivated
    /\ sub_depth_
    /\ numSubscribers = 2
    /\ \A t \in ConnThreads : cpc[t] = "idle"

\* The connectCb threads between taking and releasing connect_mutex_.
InConnectBody == {t \in ConnThreads : cpc[t] \in {"locked"} \cup ConnectDecisions}

\* C16: connect_mutex_ keeps connectCb bodies apart from each other and from
\* onInit's advertise-and-assign: at most one connectCb is between its lock
\* and its return, never while onInit holds the lock, and a connectCb that
\* has read pub_cloud_ read it after onInit assigned it.
C16_ConnectMutualExclusion ==
    /\ Cardinality(InConnectBody) <= 1
    /\ InConnectBody # {} =>
          /\ connect_mutex_ = "connectCb"
          /\ init_pc \notin {"advertise", "assign"}
    /\ (\E t \in ConnThreads : cpc[t] \in ConnectDecisions) => pub_cloud_

\* One connectCb has made its tests while another waits for the lock.
C16_Witness ==
    \E t1, t2 \in ConnThreads :
        /\ cpc[t1] \in ConnectDecisions
        /\ cpc[t2] = "called"

\* Position of entry e in the log of the frame in hand (0: not there), and
\* "a was done, and done before b, whenever b was done".
Pos(e) == IF Has(log, e) THEN CHOOSE i \in DOMAIN log : log[i] = e ELSE 0
Before(a, b) == Has(log, b) => (Has(log, a) /\ Pos(a) < Pos(b))

\* C17: inside the setup the camera model is filled from the frame before
\* the transform is read from it, metadata and transform are stored before
\* init_CL, then init_CL, program_kernel, init_buffers run in that order, all
\* before convert_to_pcl; a call that throws is the last setup call made.
C17_SetupOrder ==
    /\ SetupRan =>
          /\ Before("kernel_ready", "fromCameraInfo")
          /\ Before("fromCameraInfo", "setTFData")
          /\ camera_model_ = cur.info
          /\ eng_tf = CameraTransform(cur.info)
          /\ eng_md = FrameMetaData(cur)
          /\ Has(log, "init_CL")
          /\ Before("setMetaData", "init_CL")
          /\ Before("setTFData", "init_CL")
          /\ Before("init_CL", "program_kernel")
          /\ Before("program_kernel", "init_buffers")
          /\ Before("init_CL", "err_setup")
          /\ \A i \in DOMAIN SetupSteps :
                (Has(log, SetupSteps[i]) /\ Has(log, "convert"))
                  => Pos(SetupSteps[i]) < Pos("convert")
          /\ Has(log, "throws") =>
                /\ log[Pos("throws") + 1] = "err_setup"
                /\ \A i \in DOMAIN SetupSteps :
                      Has(log, SetupSteps[i]) => Pos(SetupSteps[i]) < Pos("throws")
          /\ Has(log, "err_setup") <=> Has(log, "throws")
    /\ Has(log, "convert") => setupRuns >= 1

\* program_kernel threw: init_CL and program_kernel were called, init_buffers
\* was not, and the callback went on to its conversion block.
C17_Witness ==
    /\ dpc = "done"
    /\ Has(log, "program_kernel")
    /\ Has(log, "throws")
    /\ ~Has(log, "init_buffers")
    /\ Has(log, "convert")

\* C18: kernel_ready_ is false once onInit has set it, becomes true only in
\* depthCb's setup block, which is entered with an OpenCL backend only, and
\* once true no step of any handler sets it back to false.
C18_ReadyMonotone ==
    [][/\ (init_pc = "start" /\ init_pc' # "start") => ~kernel_ready_'
       /\ (init_pc # "start" /\ kernel_ready_) => kernel_ready_'
       /\ (init_pc # "start" /\ ~kernel_ready_ /\ kernel_ready_') =>
            /\ dpc = "setup"
            /\ dpc' = "convert"
            /\ Has(log, "opencl")]_vars

\* The flag is still set after a conversion failure and after connectCb has
\* shut the subscription down.
C18_Witness ==
    /\ kernel_ready_
    /\ dpc = "done"
    /\ Has(log, "err_convert")
    /\ ~sub_depth_
    /\ numSubscribers = 0
    /\ \A t \in ConnThreads : cpc[t] = "idle"

=============================================================================
